---- MODULE Spec2Model ----
(***************************************************************************)
(* Model of src/lib/rt-numa.c: the NUMA capability flag, the two           *)
(* thread-to-CPU resolvers, the reconciliation of a mask with the runtime  *)
(* affinity, and the CPU-list parser.                                      *)
(*                                                                         *)
(* A struct bitmask is modelled by the set of its set bits; every bitmask  *)
(* (and the cpu_set_t of sched_getaffinity) has NrCpus bits, independent   *)
(* of the max_cpus argument the callers pass.                              *)
(***************************************************************************)
EXTENDS Integers, FiniteSets, Sequences, TLC

\* Bounds of the model.
NrCpus == 2          \* bits in a bitmask (numa_allocate_cpumask)
MaxThread == 3       \* largest thread_num passed to a resolver
MaxInitCalls == 3    \* calls of numa_initialize per run

Cpus == 0 .. (NrCpus - 1)
Masks == SUBSET Cpus
Affinities == Masks \ {{}}            \* a process is always allowed somewhere
\* int max_cpus: a CPU count as sysconf reports it, or its error value -1
MaxCpusVals == (1 .. NrCpus) \cup {-1}
ThreadVals == 0 .. MaxThread          \* int thread_num, the index of a thread
Alphabet == {"!", "+", "d"}           \* "d": any character of a CPU list
Strings == {<<"d">>, <<"!", "d">>, <<"+", "d">>, <<"d", "+">>}

\* A struct bitmask pointer: NULL, or a bitmask with the given set bits.
NullMask == [isnull |-> TRUE, bits |-> {}]
MaskOf(b) == [isnull |-> FALSE, bits |-> b]
MaskPtrs == {NullMask} \cup {MaskOf(b) : b \in Masks}

ENOMEM == 12
UIntHalf == 65536    \* 2^16; unsigned int is 32 bits wide

VARIABLES
    cpumask,         \* the caller's struct bitmask *, written through **cpumask
    affinity,        \* the allowed-CPU set the OS reports for the process
    is_initialized,  \* static int of numa_initialize
    numa,            \* static int of numa_initialize
    ninit_calls,     \* calls of numa_initialize so far
    navail_calls,    \* invocations of numa_available so far
    first_navail,    \* what numa_available returned on the first call of numa_initialize
    alive,           \* FALSE once fatal() has ended the process
    last             \* the last call: its arguments and what it did

vars == <<cpumask, affinity, is_initialized, numa, ninit_calls, navail_calls,
          first_navail, alive, last>>

NoCall == [op |-> "none", thread_num |-> 0, max_cpus |-> 0, modifier |-> FALSE,
           parsed |-> NullMask, pre |-> {}, aff |-> {}, post |-> {},
           status |-> "none", ret |-> 0, warned |-> FALSE, out |-> NullMask,
           allocs |-> 0, frees |-> 0, reconciled |-> FALSE, again |-> FALSE,
           first_pre |-> {}]

----
\* libnuma's bitmask primitives, as the code uses them.
numa_bitmask_weight(bmp) == Cardinality(bmp)
numa_bitmask_isbitset(bmp, i) == i \in bmp
numa_bitmask_clearbit(bmp, i) == bmp \ {i}

\* i < max_cpus with unsigned int i and int max_cpus: max_cpus is converted
\* to unsigned, so a negative max_cpus is at least 2^31 and above every i.
ULess(i, max_cpus) == IF max_cpus < 0 THEN TRUE ELSE i < max_cpus

\* (unsigned) thread_num % num_cpus, num_cpus > 0: a negative thread_num is
\* thread_num + 2^32 after the conversion.
UMod(thread_num, num_cpus) ==
    IF thread_num >= 0 THEN thread_num % num_cpus
    ELSE LET h == UIntHalf % num_cpus
         IN  (((h * h) % num_cpus) + (thread_num % num_cpus)) % num_cpus

\* thread_num % num_cpus on ints, num_cpus > 0: C truncates towards zero.
CMod(thread_num, num_cpus) ==
    IF thread_num >= 0 THEN thread_num % num_cpus
    ELSE 0 - ((0 - thread_num) % num_cpus)

Outcome(st, r, w) == [status |-> st, ret |-> r, warned |-> w]

\* fatal(): prints and ends the process; no value is returned.
fatal == Outcome("fatal", 0, FALSE)

----
\* cpu_for_thread_sp, lines 53-76.

\* The for loop of lines 65-73 from index i on, with cpu members counted so
\* far; then the warn and the return 0 of lines 74-75.  No bit at or above
\* NrCpus is set (numa_bitmask_isbitset returns 0 there), so from NrCpus on
\* the loop can only run out.
RECURSIVE sp_scan(_, _, _, _, _)
sp_scan(i, cpu, m, max_cpus, bmp) ==
    IF ~ULess(i, max_cpus) \/ i >= NrCpus
    THEN Outcome("returned", 0, TRUE)
    ELSE IF numa_bitmask_isbitset(bmp, i)
         THEN IF cpu = m
              THEN Outcome("returned", i, FALSE)
              ELSE sp_scan(i + 1, cpu + 1, m, max_cpus, bmp)
         ELSE sp_scan(i + 1, cpu, m, max_cpus, bmp)

\* Faulty variant: the num_cpus == 0 check is missing and the scan runs on
\* the empty mask.
cpu_for_thread_sp_nocheck(thread_num, max_cpus, bmp) ==
    LET num_cpus == numa_bitmask_weight(bmp)
    IN  IF num_cpus = 0
        THEN sp_scan(0, 0, 0, max_cpus, bmp)
        ELSE sp_scan(0, 0, UMod(thread_num, num_cpus), max_cpus, bmp)

cpu_for_thread_sp(thread_num, max_cpus, bmp) ==
    LET num_cpus == numa_bitmask_weight(bmp)
    IN  IF num_cpus = 0
        THEN fatal
        ELSE sp_scan(0, 0, UMod(thread_num, num_cpus), max_cpus, bmp)

----
\* cpu_for_thread_ua, lines 79-105.

\* The for loop of lines 93-101 (int i, cpu, m), then lines 103-104.
RECURSIVE ua_scan(_, _, _, _, _)
ua_scan(i, cpu, m, max_cpus, cpuset) ==
    IF ~(i < max_cpus)
    THEN Outcome("returned", 0, TRUE)
    ELSE IF i \in cpuset
         THEN IF cpu = m
              THEN Outcome("returned", i, FALSE)
              ELSE ua_scan(i + 1, cpu + 1, m, max_cpus, cpuset)
         ELSE ua_scan(i + 1, cpu, m, max_cpus, cpuset)

\* Faulty variant: the count of members starts at 1.
cpu_for_thread_ua_offbyone(thread_num, max_cpus, res, cpuset) ==
    IF res # 0
    THEN {fatal}
    ELSE LET num_cpus == Cardinality(cpuset)
         IN  IF num_cpus = 0
             THEN {fatal}
             ELSE {ua_scan(0, 1, CMod(thread_num, num_cpus), max_cpus, cpuset)}

\* What thread_num % 0 may do: trap, or yield any value.
ModByZero ==
    {Outcome("trap", 0, FALSE)} \cup
    {Outcome("returned", c, w) : c \in Cpus, w \in BOOLEAN}

\* The set of possible outcomes; res is what sched_getaffinity returned and
\* cpuset what it stored.
cpu_for_thread_ua(thread_num, max_cpus, res, cpuset) ==
    IF res # 0
    THEN {fatal}
    ELSE LET num_cpus == Cardinality(cpuset)
         IN  IF num_cpus = 0
             THEN ModByZero
             ELSE {ua_scan(0, 0, CMod(thread_num, num_cpus), max_cpus, cpuset)}

----
\* use_current_cpuset, lines 112-151.

\* Faulty variant of the loop: the user mask is tested at bit i + 1.
RECURSIVE ucc_loop_shifted(_, _, _, _)
ucc_loop_shifted(i, max_cpus, bmp, curmask) ==
    IF ~(i < max_cpus)
    THEN bmp
    ELSE ucc_loop_shifted(i + 1, max_cpus,
             IF (~numa_bitmask_isbitset(bmp, i + 1)) \/ (~numa_bitmask_isbitset(curmask, i))
             THEN numa_bitmask_clearbit(bmp, i)
             ELSE bmp,
             curmask)

\* The for loop of lines 135-146 from index i on (int i): the bits of the
\* user mask when it ends.
RECURSIVE ucc_loop(_, _, _, _)
ucc_loop(i, max_cpus, bmp, curmask) ==
    IF ~(i < max_cpus)
    THEN bmp
    ELSE ucc_loop(i + 1, max_cpus,
             IF (~numa_bitmask_isbitset(bmp, i)) \/ (~numa_bitmask_isbitset(curmask, i))
             THEN numa_bitmask_clearbit(bmp, i)
             ELSE bmp,
             curmask)

use_current_cpuset_shifted(max_cpus, bmp, curmask) == ucc_loop_shifted(0, max_cpus, bmp, curmask)

\* curmask is what numa_sched_getaffinity stored in the bitmask allocated at
\* line 121 and freed at line 150.
use_current_cpuset(max_cpus, bmp, curmask) == ucc_loop(0, max_cpus, bmp, curmask)

----
\* parse_cpumask, lines 159-196.

\* strchr(str, c) != NULL
strchr(str, c) == \E k \in 1 .. Len(str) : str[k] = c

HasModifier(str) == strchr(str, "!") \/ strchr(str, "+")

ParseResult(r, o, a, f, rec) ==
    [ret |-> r, out |-> o, allocs |-> a, frees |-> f, reconciled |-> rec]

\* Faulty variant: the mask is reconciled whatever the string holds.
parse_cpumask_always(str, max_cpus, mask, curaff, old) ==
    IF mask.isnull
    THEN ParseResult(0 - ENOMEM, old, 0, 0, FALSE)
    ELSE IF numa_bitmask_weight(mask.bits) = 0
         THEN ParseResult(0, NullMask, 1, 1, FALSE)
         ELSE ParseResult(0, MaskOf(use_current_cpuset(max_cpus, mask.bits, curaff)), 2, 1, TRUE)

\* Faulty variant: no weight check, the empty mask is handed back.
parse_cpumask_noweight(str, max_cpus, mask, curaff, old) ==
    IF mask.isnull
    THEN ParseResult(0 - ENOMEM, old, 0, 0, FALSE)
    ELSE IF HasModifier(str)
         THEN ParseResult(0, MaskOf(use_current_cpuset(max_cpus, mask.bits, curaff)), 2, 1, TRUE)
         ELSE ParseResult(0, mask, 1, 0, FALSE)

\* Faulty variant: the zero-weight path does not free the mask.
parse_cpumask_leak(str, max_cpus, mask, curaff, old) ==
    IF mask.isnull
    THEN ParseResult(0 - ENOMEM, old, 0, 0, FALSE)
    ELSE IF numa_bitmask_weight(mask.bits) = 0
         THEN ParseResult(0, NullMask, 1, 0, FALSE)
         ELSE IF HasModifier(str)
              THEN ParseResult(0, MaskOf(use_current_cpuset(max_cpus, mask.bits, curaff)), 2, 1, TRUE)
              ELSE ParseResult(0, mask, 1, 0, FALSE)

\* mask is what numa_parse_cpustring_all(str) returned (NULL, or the bitmask
\* it allocated), curaff the runtime affinity, old the value of *cpumask
\* before the call.  allocs and frees count numa's allocations and
\* numa_bitmask_free calls during the call.
parse_cpumask(str, max_cpus, mask, curaff, old) ==
    IF mask.isnull
    THEN ParseResult(0 - ENOMEM, old, 0, 0, FALSE)
    ELSE IF numa_bitmask_weight(mask.bits) = 0
         THEN ParseResult(0, NullMask, 1, 1, FALSE)
         ELSE IF HasModifier(str)
              THEN ParseResult(0, MaskOf(use_current_cpuset(max_cpus, mask.bits, curaff)), 2, 1, TRUE)
              ELSE ParseResult(0, mask, 1, 0, FALSE)

----
\* State and operations.

Init ==
    /\ cpumask \in MaskPtrs
    /\ affinity \in Affinities
    /\ is_initialized = 0
    /\ numa = 0
    /\ ninit_calls = 0
    /\ navail_calls = 0
    /\ first_navail = 0
    /\ alive = TRUE
    /\ last = NoCall

NumaAvailableVals == {-1, 0}

\* Faulty variant: is_initialized is not consulted.
NumaInitializeNoMemo ==
    /\ alive
    /\ ninit_calls < MaxInitCalls
    /\ \E avail \in NumaAvailableVals :
          /\ numa' = (IF avail # -1 THEN 1 ELSE 0)
          /\ first_navail' = (IF navail_calls = 0 THEN avail ELSE first_navail)
    /\ is_initialized' = 1
    /\ navail_calls' = navail_calls + 1
    /\ ninit_calls' = ninit_calls + 1
    /\ last' = [NoCall EXCEPT !.op = "numa_initialize", !.status = "returned", !.ret = numa']
    /\ UNCHANGED <<cpumask, affinity, alive>>

\* numa_initialize, lines 20-34; avail is what numa_available returns.
NumaInitialize ==
    /\ alive
    /\ ninit_calls < MaxInitCalls
    /\ IF is_initialized = 1
       THEN UNCHANGED <<numa, is_initialized, navail_calls, first_navail>>
       ELSE /\ \E avail \in NumaAvailableVals :
                 /\ numa' = (IF avail # -1 THEN 1 ELSE numa)
                 /\ first_navail' = (IF navail_calls = 0 THEN avail ELSE first_navail)
            /\ is_initialized' = 1
            /\ navail_calls' = navail_calls + 1
    /\ ninit_calls' = ninit_calls + 1
    /\ last' = [NoCall EXCEPT !.op = "numa_initialize", !.status = "returned", !.ret = numa']
    /\ UNCHANGED <<cpumask, affinity, alive>>

\* A call of cpu_for_thread_sp on the mask the caller holds.
CpuForThreadSp ==
    /\ alive
    /\ ~cpumask.isnull
    /\ \E thread_num \in ThreadVals, max_cpus \in MaxCpusVals :
          LET r == cpu_for_thread_sp(thread_num, max_cpus, cpumask.bits)
          IN  /\ last' = [NoCall EXCEPT !.op = "sp", !.thread_num = thread_num,
                                        !.max_cpus = max_cpus, !.pre = cpumask.bits,
                                        !.post = cpumask.bits,
                                        !.status = r.status, !.ret = r.ret,
                                        !.warned = r.warned]
              /\ alive' = (r.status # "fatal")
    /\ UNCHANGED <<cpumask, affinity, is_initialized, numa, ninit_calls,
                   navail_calls, first_navail>>

\* A call of cpu_for_thread_ua; sched_getaffinity returns res and, when it
\* succeeds, stores the affinity of the process.
CpuForThreadUa ==
    /\ alive
    /\ \E thread_num \in ThreadVals, max_cpus \in MaxCpusVals, res \in {0, -1} :
          \E r \in cpu_for_thread_ua(thread_num, max_cpus, res,
                                     IF res = 0 THEN affinity ELSE {}) :
              /\ last' = [NoCall EXCEPT !.op = "ua", !.thread_num = thread_num,
                                        !.max_cpus = max_cpus,
                                        !.aff = (IF res = 0 THEN affinity ELSE {}),
                                        !.status = r.status, !.ret = r.ret,
                                        !.warned = r.warned]
              /\ alive' = (r.status \notin {"fatal", "trap"})
    /\ UNCHANGED <<cpumask, affinity, is_initialized, numa, ninit_calls,
                   navail_calls, first_navail>>

\* A call of use_current_cpuset on the mask the caller holds.  again records
\* that the call before this one reconciled the same mask with the same
\* max_cpus and the same runtime affinity; first_pre is then the mask that
\* call started from.
UseCurrentCpuset ==
    /\ alive
    /\ ~cpumask.isnull
    /\ \E max_cpus \in MaxCpusVals :
          LET post  == use_current_cpuset(max_cpus, cpumask.bits, affinity)
              again == /\ last.reconciled
                       /\ last.max_cpus = max_cpus
                       /\ last.aff = affinity
                       /\ last.post = cpumask.bits
          IN  /\ cpumask' = MaskOf(post)
              /\ last' = [NoCall EXCEPT !.op = "reconcile", !.max_cpus = max_cpus,
                                        !.pre = cpumask.bits, !.aff = affinity,
                                        !.post = post, !.status = "returned",
                                        !.out = MaskOf(post),
                                        !.allocs = 1, !.frees = 1,
                                        !.reconciled = TRUE, !.again = again,
                                        !.first_pre = (IF again THEN last.pre ELSE {})]
    /\ UNCHANGED <<affinity, is_initialized, numa, ninit_calls, navail_calls,
                   first_navail, alive>>

\* A call of parse_cpumask(str, max_cpus, &cpumask); mask is what
\* numa_parse_cpustring_all makes of str.
ParseCpumask ==
    /\ alive
    /\ \E str \in Strings, max_cpus \in MaxCpusVals, mask \in MaskPtrs :
          LET r == parse_cpumask(str, max_cpus, mask, affinity, cpumask)
          IN  /\ cpumask' = r.out
              /\ last' = [NoCall EXCEPT !.op = "parse", !.max_cpus = max_cpus,
                                        !.modifier = HasModifier(str),
                                        !.parsed = mask, !.pre = mask.bits,
                                        !.aff = affinity, !.post = r.out.bits,
                                        !.status = "returned", !.ret = r.ret,
                                        !.out = r.out, !.allocs = r.allocs,
                                        !.frees = r.frees,
                                        !.reconciled = r.reconciled]
    /\ UNCHANGED <<affinity, is_initialized, numa, ninit_calls, navail_calls,
                   first_navail, alive>>

\* The environment changes the affinity of the process (a cpuset or
\* sched_setaffinity from outside).
SetAffinity ==
    /\ alive
    /\ \E a \in Affinities \ {affinity} : affinity' = a
    /\ last' = [NoCall EXCEPT !.op = "setaffinity"]
    /\ UNCHANGED <<cpumask, is_initialized, numa, ninit_calls, navail_calls,
                   first_navail, alive>>

\* The resolvers.
Next == CpuForThreadSp \/ CpuForThreadUa \/ SetAffinity

Spec == Init /\ [][Next]_vars

\* The parser and the reconciler.
NextParse == ParseCpumask \/ UseCurrentCpuset \/ SetAffinity

SpecParse == Init /\ [][NextParse]_vars

\* The capability flag.
NextNuma == NumaInitialize

SpecNuma == Init /\ [][NextNuma]_vars

----
\* Properties.

\* The member of M at 0-based position k in ascending CPU-id order.
NthMember(M, k) == CHOOSE c \in M : Cardinality({x \in M : x < c}) = k

LowestMember(M) == CHOOSE c \in M : \A x \in M : c <= x

\* The parsed set once every id below max_cpus that the runtime affinity
\* lacks is taken out.
AllowedBelow(C, max_cpus, A) == {c \in C : c >= max_cpus \/ c \in A}

SpCalled == last.op = "sp"
UaCalled == last.op = "ua"
ParseCalled == last.op = "parse"
ParseSucceeded == ParseCalled /\ last.ret = 0

\* C1: for every mask M of cardinality N >= 1 and every thread_num t >= 0,
\* cpu_for_thread_sp(t, max_cpus, M) returns the member of M at position
\* t mod N in ascending order: a member of M, the lowest member for t = 0,
\* and the same CPU as for t + N.
C1_SpReturnsNthMember ==
    (SpCalled /\ last.thread_num >= 0 /\ Cardinality(last.pre) >= 1) =>
        LET N == Cardinality(last.pre)
        IN  /\ last.status = "returned"
            /\ last.ret \in last.pre
            /\ last.ret = NthMember(last.pre, last.thread_num % N)
            /\ (last.thread_num = 0 => last.ret = LowestMember(last.pre))
            /\ cpu_for_thread_sp(last.thread_num + N, last.max_cpus, last.pre).ret = last.ret

\* C2: for every string S expanding to a set C with |C| >= 1, with or
\* without a modifier character and whatever the runtime affinity,
\* parse_cpumask succeeds with a mask whose member set equals C.
C2_ParseYieldsExpansion ==
    (ParseCalled /\ ~last.parsed.isnull /\ last.parsed.bits # {}) =>
        /\ last.ret = 0
        /\ ~last.out.isnull
        /\ last.out.bits = last.parsed.bits

\* C2, amended: parse_cpumask succeeds with a mask equal to C when S holds
\* no modifier character; when S holds '!' or '+' the mask is C without the
\* ids below max_cpus that the runtime affinity lacks.
C2_ParseYieldsExpansionOrReconciled ==
    (ParseCalled /\ ~last.parsed.isnull /\ last.parsed.bits # {}) =>
        /\ last.ret = 0
        /\ ~last.out.isnull
        /\ (~last.modifier => last.out.bits = last.parsed.bits)
        /\ (last.modifier =>
               last.out.bits = AllowedBelow(last.parsed.bits, last.max_cpus, last.aff))

C2_Witness ==
    /\ ParseSucceeded
    /\ last.modifier
    /\ last.out.bits # {}
    /\ last.out.bits # last.parsed.bits

\* C3: whenever parse_cpumask returns success, the mask handed back is NULL
\* or has at least one member, for every string and every runtime affinity.
C3_ParseNeverYieldsEmptyMask ==
    ParseSucceeded => (last.out.isnull \/ last.out.bits # {})

\* C3, amended: a mask with zero members is handed back only for a string
\* holding '!' or '+' whose non-empty expansion lost every member to the
\* reconciliation; without a modifier the mask is NULL or non-empty.
C3_EmptyMaskOnlyAfterReconciliation ==
    (ParseSucceeded /\ ~last.out.isnull /\ last.out.bits = {}) =>
        /\ last.modifier
        /\ last.reconciled
        /\ last.parsed.bits # {}
        /\ last.parsed.bits \cap last.aff = {}

C3_Witness ==
    /\ ParseSucceeded
    /\ last.modifier
    /\ ~last.out.isnull
    /\ last.out.bits = {}
    /\ cpumask = last.out

\* C4: after use_current_cpuset(max_cpus, mask) the member set of mask is
\* exactly the intersection of its member set before the call and the
\* runtime affinity read during the call; in particular a subset of the
\* input mask.
C4_ReconcileIsIntersection ==
    last.reconciled =>
        /\ last.post = last.pre \cap last.aff
        /\ last.post \subseteq last.pre

\* C5: cpu_for_thread_sp on a mask of cardinality 0 ends the process through
\* fatal() and returns no CPU id, for every thread_num and max_cpus.
C5_SpEmptyMaskIsFatal ==
    (SpCalled /\ Cardinality(last.pre) = 0) =>
        /\ last.status = "fatal"
        /\ last.status # "returned"
        /\ ~last.warned
        /\ ~alive

C5_Witness ==
    /\ SpCalled
    /\ last.pre = {}
    /\ last.thread_num > 0
    /\ last.max_cpus > 0
    /\ ~alive

\* C6: for every string expanding to the empty set parse_cpumask returns 0
\* with *cpumask set to NULL, and the mask allocated during the call has
\* been freed exactly once: no allocation is outstanding.
C6_EmptyExpansionYieldsNullNoLeak ==
    (ParseCalled /\ ~last.parsed.isnull /\ last.parsed.bits = {}) =>
        /\ last.ret = 0
        /\ last.out.isnull
        /\ cpumask.isnull
        /\ last.allocs = 1
        /\ last.frees = 1
        /\ last.allocs - last.frees = 0

C6_Witness ==
    /\ ParseCalled
    /\ ~last.parsed.isnull
    /\ last.parsed.bits = {}
    /\ last.modifier
    /\ cpumask.isnull

\* C7: reconciliation is idempotent: a second use_current_cpuset on an
\* already reconciled mask, the runtime affinity (and max_cpus) unchanged,
\* leaves the mask as the first call produced it.
C7_ReconcileIdempotent ==
    (last.op = "reconcile" /\ last.again) =>
        /\ last.post = last.pre
        /\ cpumask.bits = last.pre

C7_Witness ==
    /\ last.op = "reconcile"
    /\ last.again
    /\ last.first_pre # last.pre
    /\ last.pre # {}
    /\ last.max_cpus > 0

\* C8: over any sequence of calls of numa_initialize, numa_available is
\* invoked at most once, on the first call, and every call returns what the
\* first returned: 1 if numa_available did not return -1, otherwise 0.
C8_NumaInitializeMemoized ==
    /\ navail_calls <= 1
    /\ (ninit_calls >= 1 => navail_calls = 1)
    /\ (last.op = "numa_initialize" =>
           last.ret = (IF first_navail # -1 THEN 1 ELSE 0))

C8_Witness ==
    /\ last.op = "numa_initialize"
    /\ ninit_calls >= 2
    /\ navail_calls = 1
    /\ last.ret = 1

\* C9: in cpu_for_thread_sp, whenever the cardinality of the mask is above
\* 0, the scan returns the (thread_num mod N)-th member before the loop
\* ends: the warn-and-return-0 branch is never reached, for every mask,
\* max_cpus and thread_num.
C9_SpFallbackUnreachable ==
    (SpCalled /\ Cardinality(last.pre) > 0) => ~last.warned

====
